---- MODULE Spec2Model ----
(***************************************************************************)
(* dobi image build task (tasks/image/build.go): the staleness check       *)
(* buildIsStale, the build driver RunBuild / buildImage, the context       *)
(* scanner scanRoot2Slice (filepath.Walk), the two-goroutine join          *)
(* getTarContext and the tarball packer.                                   *)
(*                                                                         *)
(* One RunBuild execution is a sequential process whose program counter    *)
(* pc stops at every call that leaves the function (engine, filesystem,    *)
(* record store); the two goroutines of getTarContext have their own       *)
(* counters.  The docker engine, the record file, the clock and the        *)
(* context directory are the environment.                                  *)
(***************************************************************************)
EXTENDS Integers, Sequences, FiniteSets, TLC

\* ---------------------------------------------------------------- bounds
MaxTime == 2

Times == 0..MaxTime
IDs == {"id1", "id2"}

\* ---------------------------------------------------------------- values
None == "none"
Nil == "nil"
ErrNoSuchImage == "ErrNoSuchImage"
NoImage == [ID |-> "", Created |-> 0, exists |-> FALSE]
NoRecord == [state |-> "absent", ImageID |-> "", ModTime |-> 0]
CorruptRecord == [state |-> "corrupt", ImageID |-> "", ModTime |-> 0]
NoStale == [set |-> FALSE, stale |-> FALSE, err |-> Nil, at |-> None]
NoResult == [set |-> FALSE, built |-> FALSE, err |-> Nil]

\* t.config.Context, a relative directory; paths are sequences of components
Context == <<"ctx">>
FileNames == {"a", "b"}
NameOrder == <<"a", "b">>
\* roots an ignore file may name: the context, a file of it, a missing directory
IgnoreRoots == {Context, Context \o <<"a">>, <<"nodir">>}
PatternLists == {<<>>} \cup {<<r>> : r \in IgnoreRoots}
                  \cup {<<<<"nodir">>, Context \o <<"a">>>>, <<Context \o <<"a">>, Context>>}

VARIABLES
  clock,        \* wall clock (time.Now, file mtimes)
  image,        \* the engine's image of the task's name
  record,       \* the record file: [state, ImageID, ModTime]
  ctxMtime,     \* latest modification time under the context
  rootStat,     \* the context directory: "ok", "missing", "unreadable"
  files,        \* names the context directory lists
  lstatFail,    \* listed names whose lstat fails
  config,       \* t.config: [Steps, Dockerfile]
  pc,           \* position of RunBuild
  hasModifiedDeps,
  loc,          \* locals: what the lookups, the walk and the record read gave
  staleRes,     \* what buildIsStale returned: [set, stale, err, at]
  gctx,         \* goroutine of scanContext: [pc, Slice, error, walkErr]
  gign,         \* goroutine of scanIgnored: [pc, Slice, error, walkErr, readAll, first]
  tar,          \* writeTarball: [entries, paths, i, diffed]
  hist,         \* what this execution did so far
  result,       \* what RunBuild returned: [set, built, err]
  prevClean     \* the previous execution started with no image and no record,
                \* checked staleness, built, wrote its records, and nothing
                \* outside the program changed since it started

vars == <<clock, image, record, ctxMtime, rootStat, files, lstatFail, config, pc,
          hasModifiedDeps, loc, staleRes, gctx, gign, tar, hist, result, prevClean>>

envVars == <<clock, image, record, ctxMtime, rootStat, files, lstatFail>>

\* ------------------------------------------------------- pure functions
\* time.Time.Before
Before(a, b) == a < b

\* faulty variant: before-or-equal, so an image as old as the context is stale
StaleFallback_OrEqual(img, mtime) == img.Created <= mtime

\* buildIsStale lines 69-76: the record could not be read
StaleFallback(img, mtime) == Before(img.Created, mtime)

\* faulty variant: before-or-equal, so a record as old as the context is stale
StaleWithRecord_OrEqual(img, rec, mtime) ==
  img.ID # rec.ImageID \/ rec.ModTime <= mtime

\* buildIsStale lines 78-82: the record was read
StaleWithRecord(img, rec, mtime) ==
  img.ID # rec.ImageID \/ Before(rec.ModTime, mtime)

\* os.Lstat of a path of the modelled filesystem
Lstat(p) ==
  IF p = Context
    THEN IF rootStat = "missing" THEN "err" ELSE "dir"
  ELSE IF Len(p) = 2 /\ p[1] = Context[1] /\ rootStat # "missing"
          /\ p[2] \in files /\ p[2] \notin lstatFail
    THEN "file"
  ELSE "err"

\* the names readDirNames lists, sorted
ListedFrom(i) ==
  SelectSeq(SubSeq(NameOrder, i, Len(NameOrder)), LAMBDA n : n \in files)

\* the walk callback of scanRoot2Slice (lines 262-267) on one visit; info is
\* "nil" when filepath.Walk hands over a failed lstat.  f.IsDir() on a nil
\* FileInfo is a nil dereference: the goroutine panics.
WalkFn(acc, path, info) ==
  IF acc.panic THEN acc
  ELSE IF info = "nil" THEN [acc EXCEPT !.panic = TRUE]
  ELSE IF info # "dir" THEN [acc EXCEPT !.Slice = Append(@, path)]
  ELSE acc

RECURSIVE WalkNames(_, _, _)
WalkNames(acc, root, names) ==
  IF names = <<>> THEN acc
  ELSE LET p == root \o <<Head(names)>>
           s == Lstat(p)
       IN WalkNames(WalkFn(acc, p, IF s = "err" THEN "nil" ELSE s), root, Tail(names))

\* scanRoot2Slice (lines 261-269) with filepath.Walk unfolded: the error Walk
\* returns is the callback's return value, and the callback returns nil.
\* walkErr records that Walk reported an error to the callback.
scanRoot2Slice(root, placeholder) ==
  LET acc0 == [Slice |-> placeholder, error |-> Nil, panic |-> FALSE, walkErr |-> FALSE]
      s == Lstat(root)
  IN IF s = "err" THEN [WalkFn(acc0, root, "nil") EXCEPT !.walkErr = TRUE]
     ELSE IF s = "file" THEN WalkFn(acc0, root, s)
     ELSE IF rootStat = "unreadable"
       THEN [WalkFn(acc0, root, s) EXCEPT !.walkErr = TRUE]
     ELSE LET r == WalkNames(WalkFn(acc0, root, s), root, ListedFrom(1))
          IN [r EXCEPT !.walkErr = (\E n \in files : n \in lstatFail)]


\* scanContext (lines 257-259)
scanContext == scanRoot2Slice(Context, <<>>)

\* the loop of scanIgnored (lines 248-253) over the patterns still to resolve
RECURSIVE ResolveIgnores(_, _)
ResolveIgnores(acc, pats) ==
  IF pats = <<>> \/ acc.panic \/ acc.error # Nil THEN acc
  ELSE LET r == scanRoot2Slice(Head(pats), acc.Slice)
       IN ResolveIgnores([r EXCEPT !.walkErr = acc.walkErr \/ r.walkErr], Tail(pats))

\* scanIgnored (lines 242-255); readAll is what dockerignore.ReadAll returned:
\* [err, pats], a list of roots unless it failed
scanIgnored(readAll) ==
  IF readAll.err
    THEN [Slice |-> <<>>, error |-> "IgnoreErr", panic |-> FALSE, walkErr |-> FALSE]
  ELSE ResolveIgnores([Slice |-> <<>>, error |-> Nil, panic |-> FALSE, walkErr |-> FALSE],
                      readAll.pats)

\* dockerignore.Difference: the paths of all that do not occur in ignored
Difference(all, ignored) ==
  SelectSeq(all, LAMBDA p : \A k \in 1..Len(ignored) : ignored[k] # p)

\* faulty variant: the header is written and the body is not
DockerfileEntry_NoBody == [Name |-> <<"Dockerfile">>, Body |-> <<>>]

\* the entry writeDockerfiletoTarBall writes (lines 189-201): the name
\* Dockerfile, the size of the steps text and the text itself
DockerfileEntry == [Name |-> <<"Dockerfile">>, Body |-> <<config.Steps>>]

\* strings.TrimPrefix(file, filepath.Base(t.config.Context)+"/") (line 221)
EntryName(file) ==
  IF Len(file) > 1 /\ file[1] = Context[Len(Context)] THEN Tail(file) ELSE file

\* ioutil.ReadFile: the bytes of a context file
Content(file) == <<"bytes">> \o file

\* fs.LastModified(t.config.Context): a walk that fails on any walk error
LastModified ==
  IF rootStat # "ok" \/ (files \cap lstatFail) # {}
    THEN [mtime |-> 0, err |-> "WalkErr"]
  ELSE [mtime |-> ctxMtime, err |-> Nil]

\* GetImage: the engine's answer to a lookup; fail is a transport failure
GetImage(fail) ==
  IF fail THEN [image |-> NoImage, err |-> "LookupErr"]
  ELSE IF ~image.exists THEN [image |-> NoImage, err |-> ErrNoSuchImage]
  ELSE [image |-> image, err |-> Nil]

\* getImageRecord(recordPath): missing, corrupt and I/O failure are one error
getImageRecord(fail) ==
  IF fail \/ record.state # "ok"
    THEN [record |-> NoRecord, err |-> "RecordErr"]
  ELSE [record |-> record, err |-> Nil]

\* faulty variant: the record is built without the image's ID
imageModifiedRecord_NoID(img) == [ImageID |-> ""]

\* imageModifiedRecord{ImageID: image.ID} (lines 44 and 99)
imageModifiedRecord(img) == [ImageID |-> img.ID]

\* updateImageRecord(recordPath, rec): the file is replaced and stamped now
updateImageRecord(rec) == [state |-> "ok", ImageID |-> rec.ImageID, ModTime |-> clock]

\* ------------------------------------------------------------ the process
Idle == pc \in {"idle", "done", "crashed"}

NoReadAll == [err |-> FALSE, pats |-> <<>>]
GoIdle == [pc |-> "idle", Slice |-> <<>>, error |-> Nil, walkErr |-> FALSE]
GoIgnIdle == [pc |-> "idle", Slice |-> <<>>, error |-> Nil, walkErr |-> FALSE,
              readAll |-> NoReadAll, first |-> FALSE]
TarIdle == [entries |-> <<>>, paths |-> <<>>, i |-> 0, diffed |-> FALSE]
LocIdle == [lookupErr |-> None, image |-> NoImage, mtimeErr |-> None, mtime |-> 0,
            recErr |-> None, record |-> NoRecord, newImage |-> NoImage,
            runImage |-> NoImage]
NoOpts == [set |-> FALSE, hasInput |-> FALSE, InputStream |-> <<>>, Dockerfile |-> "",
           ContextDir |-> <<>>]
HistIdle == [buildCalls |-> 0, mtimeComputed |-> FALSE, recordRead |-> FALSE,
             recWrites |-> 0, recWriteFailed |-> FALSE, packFail |-> None,
             walkErr |-> FALSE, opts |-> NoOpts, quiet |-> TRUE, startEmpty |-> FALSE]

\* faulty variant: a configured Dockerfile wins over the steps
BuildEntry_DockerfileFirst ==
  IF config.Dockerfile # "" THEN "build_dockerfile" ELSE "tar_dockerfile"

\* where buildImage goes first (lines 87-91)
BuildEntry == IF config.Steps # "" THEN "tar_dockerfile" ELSE "build_dockerfile"

\* faulty variant: the switch looks at stale before err
AfterStale_StaleFirst(stale, err) ==
  IF ~stale THEN [pc |-> "done", result |-> [set |-> TRUE, built |-> FALSE, err |-> Nil]]
  ELSE [pc |-> BuildEntry, result |-> NoResult]

\* faulty variant: the "case !stale" arm is missing
AfterStale_BuildsWhenFresh(stale, err) ==
  IF err # Nil THEN [pc |-> "done", result |-> [set |-> TRUE, built |-> FALSE, err |-> err]]
  ELSE [pc |-> BuildEntry, result |-> NoResult]

\* faulty variant: the fresh case is tested as "case stale"
AfterStale_Inverted(stale, err) ==
  IF err # Nil THEN [pc |-> "done", result |-> [set |-> TRUE, built |-> FALSE, err |-> err]]
  ELSE IF stale
    THEN [pc |-> "done", result |-> [set |-> TRUE, built |-> FALSE, err |-> Nil]]
  ELSE [pc |-> BuildEntry, result |-> NoResult]

\* RunBuild lines 23-32: what RunBuild does with buildIsStale's answer
AfterStale(stale, err) ==
  IF err # Nil THEN [pc |-> "done", result |-> [set |-> TRUE, built |-> FALSE, err |-> err]]
  ELSE IF ~stale
    THEN [pc |-> "done", result |-> [set |-> TRUE, built |-> FALSE, err |-> Nil]]
  ELSE [pc |-> BuildEntry, result |-> NoResult]

\* buildIsStale returns (stale, err) to RunBuild
StaleReturns(stale, err, at) ==
  /\ staleRes' = [set |-> TRUE, stale |-> stale, err |-> err, at |-> at]
  /\ pc' = AfterStale(stale, err).pc
  /\ result' = AfterStale(stale, err).result

\* RunBuild returns (false, err) from inside buildImage (lines 35-37, 40-42)
Fails(err) ==
  /\ pc' = "done"
  /\ result' = [set |-> TRUE, built |-> FALSE, err |-> err]

\* states of the context directory
FsStates ==
  {[rootStat |-> "ok", files |-> f, lstatFail |-> {}] : f \in SUBSET FileNames}
  \cup {[rootStat |-> "ok", files |-> FileNames, lstatFail |-> {"b"}],
        [rootStat |-> "unreadable", files |-> {"a"}, lstatFail |-> {}],
        [rootStat |-> "missing", files |-> {}, lstatFail |-> {}]}

\* task configurations: a Dockerfile, inline steps, or both
Configs == {[Steps |-> "", Dockerfile |-> "Dockerfile"],
            [Steps |-> "FROM x", Dockerfile |-> ""],
            [Steps |-> "FROM x", Dockerfile |-> "Dockerfile"]}

Init ==
  /\ clock \in Times
  /\ image \in {NoImage} \cup {[ID |-> d, Created |-> c, exists |-> TRUE] :
                                 d \in IDs, c \in 0..clock}
  /\ record \in {NoRecord, CorruptRecord} \cup
                {[state |-> "ok", ImageID |-> d, ModTime |-> m] : d \in IDs, m \in 0..clock}
  /\ ctxMtime \in 0..clock
  /\ \E fs \in FsStates :
       /\ rootStat = fs.rootStat
       /\ files = fs.files
       /\ lstatFail = fs.lstatFail
  /\ config \in Configs
  /\ pc = "idle"
  /\ hasModifiedDeps = FALSE
  /\ loc = LocIdle
  /\ staleRes = NoStale
  /\ gctx = GoIdle
  /\ gign = GoIgnIdle
  /\ tar = TarIdle
  /\ hist = HistIdle
  /\ result = NoResult
  /\ prevClean = FALSE

\* RunBuild is called (lines 21-22, 32)
RunBuild_Start(h) ==
  /\ pc = "idle"
  /\ hasModifiedDeps' = h
  /\ hist' = [HistIdle EXCEPT !.startEmpty = ~image.exists /\ record.state = "absent"]
  /\ pc' = IF h THEN BuildEntry ELSE "stale_lookup"
  /\ UNCHANGED <<envVars, config, loc, staleRes, gctx, gign, tar, result, prevClean>>

\* the caller has RunBuild's answer (or the program died); the task is over
RunBuild_Exit ==
  /\ pc \in {"done", "crashed"}
  /\ pc' = "idle"
  /\ prevClean' = (/\ pc = "done"
                   /\ hist.startEmpty
                   /\ ~hasModifiedDeps
                   /\ result.built
                   /\ hist.quiet
                   /\ ~hist.recWriteFailed)
  /\ hasModifiedDeps' = FALSE
  /\ hist' = HistIdle
  /\ result' = NoResult
  /\ staleRes' = NoStale
  /\ loc' = LocIdle
  /\ gctx' = GoIdle
  /\ gign' = GoIgnIdle
  /\ tar' = TarIdle
  /\ UNCHANGED <<envVars, config>>

\* faulty variant: the switch has no case for ErrNoSuchImage
LookupVerdict_NoCase(err) ==
  IF err = Nil THEN [returns |-> FALSE, stale |-> FALSE, err |-> Nil]
  ELSE [returns |-> TRUE, stale |-> TRUE, err |-> err]

\* buildIsStale lines 54-61: the switch on the lookup's error; returns tells
\* whether buildIsStale returns there
LookupVerdict(err) ==
  IF err = ErrNoSuchImage THEN [returns |-> TRUE, stale |-> TRUE, err |-> Nil]
  ELSE IF err = Nil THEN [returns |-> FALSE, stale |-> FALSE, err |-> Nil]
  ELSE [returns |-> TRUE, stale |-> TRUE, err |-> err]

\* buildIsStale lines 53-61
buildIsStale_Lookup(fail) ==
  /\ pc = "stale_lookup"
  /\ LET r == GetImage(fail)
         v == LookupVerdict(r.err)
     IN /\ loc' = [loc EXCEPT !.lookupErr = r.err, !.image = r.image]
        /\ IF v.returns THEN StaleReturns(v.stale, v.err, "lookup")
           ELSE /\ pc' = "stale_mtime"
                /\ UNCHANGED <<staleRes, result>>
  /\ UNCHANGED <<envVars, config, hasModifiedDeps, gctx, gign, tar, hist, prevClean>>

\* buildIsStale lines 63-66: the check of LastModified's error
MtimeVerdict(err) ==
  IF err # Nil THEN [returns |-> TRUE, stale |-> TRUE, err |-> err]
  ELSE [returns |-> FALSE, stale |-> FALSE, err |-> Nil]

\* buildIsStale lines 62-66
buildIsStale_LastModified ==
  /\ pc = "stale_mtime"
  /\ hist' = [hist EXCEPT !.mtimeComputed = TRUE]
  /\ LET r == LastModified
         v == MtimeVerdict(r.err)
     IN /\ loc' = [loc EXCEPT !.mtimeErr = r.err, !.mtime = r.mtime]
        /\ IF v.returns THEN StaleReturns(v.stale, v.err, "walk")
           ELSE /\ pc' = "stale_record"
                /\ UNCHANGED <<staleRes, result>>
  /\ UNCHANGED <<envVars, config, hasModifiedDeps, gctx, gign, tar, prevClean>>

\* buildIsStale lines 69-82: the verdict once the record read is back
RecordVerdict(img, mtime, rec, err) ==
  IF err # Nil THEN [stale |-> StaleFallback(img, mtime), err |-> Nil]
  ELSE [stale |-> StaleWithRecord(img, rec, mtime), err |-> Nil]

\* buildIsStale lines 68-83
buildIsStale_Record(fail) ==
  /\ pc = "stale_record"
  /\ hist' = [hist EXCEPT !.recordRead = TRUE]
  /\ LET r == getImageRecord(fail)
         v == RecordVerdict(loc.image, loc.mtime, r.record, r.err)
     IN /\ loc' = [loc EXCEPT !.recErr = r.err, !.record = r.record]
        /\ StaleReturns(v.stale, v.err, "record")
  /\ UNCHANGED <<envVars, config, hasModifiedDeps, gctx, gign, tar, prevClean>>

\* the pack operation fails: writeTarball returns err, buildImageFromSteps
\* returns it (lines 134-137), buildImage and RunBuild return it
PackFails(kind) ==
  /\ hist' = [hist EXCEPT !.packFail = kind]
  /\ Fails(kind)

\* writeTarball lines 146-152 and writeDockerfiletoTarBall (lines 188-203),
\* then writeFilesToTarBall enters getTarContext, which starts the two
\* goroutines (lines 166-177); buildIsStale's frame is gone
writeDockerfiletoTarBall(ok) ==
  /\ pc = "tar_dockerfile"
  /\ IF ok THEN
       /\ tar' = [tar EXCEPT !.entries = <<DockerfileEntry>>]
       /\ gctx' = [GoIdle EXCEPT !.pc = "run"]
       /\ gign' = [GoIgnIdle EXCEPT !.pc = "run"]
       /\ pc' = "recv_ctx"
       /\ UNCHANGED <<hist, result>>
     ELSE
       /\ PackFails("TarErr")
       /\ UNCHANGED <<tar, gctx, gign>>
  /\ loc' = LocIdle
  /\ UNCHANGED <<envVars, config, hasModifiedDeps, staleRes, prevClean>>

\* the goroutine of lines 168-172 up to its send; a panic ends the program
GoScanContext ==
  /\ pc \in {"recv_ctx", "recv_ignored"}
  /\ gctx.pc = "run"
  /\ LET r == scanContext IN
       /\ hist' = [hist EXCEPT !.walkErr = @ \/ r.walkErr]
       /\ gctx' = [pc |-> IF r.panic THEN "panic" ELSE "send", Slice |-> r.Slice,
                   error |-> r.error, walkErr |-> r.walkErr]
       /\ pc' = IF r.panic THEN "crashed" ELSE pc
  /\ UNCHANGED <<envVars, config, hasModifiedDeps, loc, staleRes, gign, tar, result,
                 prevClean>>

\* the goroutine of lines 173-177 up to its send
GoScanIgnored(readAll) ==
  /\ pc \in {"recv_ctx", "recv_ignored"}
  /\ gign.pc = "run"
  /\ LET r == scanIgnored(readAll) IN
       /\ hist' = [hist EXCEPT !.walkErr = @ \/ r.walkErr]
       /\ gign' = [pc |-> IF r.panic THEN "panic" ELSE "send", Slice |-> r.Slice,
                   error |-> r.error, walkErr |-> r.walkErr, readAll |-> readAll,
                   first |-> (gctx.pc = "run")]
       /\ pc' = IF r.panic THEN "crashed" ELSE pc
  /\ UNCHANGED <<envVars, config, hasModifiedDeps, loc, staleRes, gctx, tar, result,
                 prevClean>>

\* getTarContext lines 178-181: the receive completes the context scan's send
getTarContext_RecvCtx ==
  /\ pc = "recv_ctx"
  /\ gctx.pc = "send"
  /\ gctx' = [gctx EXCEPT !.pc = "done"]
  /\ IF gctx.error # Nil THEN PackFails(gctx.error)
     ELSE /\ pc' = "recv_ignored"
          /\ UNCHANGED <<hist, result>>
  /\ UNCHANGED <<envVars, config, hasModifiedDeps, loc, staleRes, gign, tar, prevClean>>

\* faulty variant: the ignore scan's error is not looked at
JoinResults_NoCheck(ctxFiles, ignoredFiles) ==
  [paths |-> Difference(ctxFiles.Slice, ignoredFiles.Slice), err |-> Nil]

\* faulty variant: the arguments of Difference are exchanged
JoinResults_Swapped(ctxFiles, ignoredFiles) ==
  IF ignoredFiles.error # Nil
    THEN [paths |-> <<>>, err |-> ignoredFiles.error]
  ELSE [paths |-> Difference(ignoredFiles.Slice, ctxFiles.Slice), err |-> Nil]

\* what getTarContext returns once both results are in (lines 183-186)
JoinResults(ctxFiles, ignoredFiles) ==
  IF ignoredFiles.error # Nil
    THEN [paths |-> <<>>, err |-> ignoredFiles.error]
  ELSE [paths |-> Difference(ctxFiles.Slice, ignoredFiles.Slice), err |-> Nil]

\* getTarContext lines 182-186 and writeFilesToTarBall lines 206-210
getTarContext_RecvIgnored ==
  /\ pc = "recv_ignored"
  /\ gign.pc = "send"
  /\ gign' = [gign EXCEPT !.pc = "done"]
  /\ LET r == JoinResults(gctx, gign) IN
       IF r.err # Nil THEN
         /\ PackFails(r.err)
         /\ tar' = tar
       ELSE
         /\ tar' = [tar EXCEPT !.paths = r.paths, !.i = 1, !.diffed = TRUE]
         /\ pc' = IF r.paths = <<>> THEN "build_steps" ELSE "tar_files"
         /\ UNCHANGED <<hist, result>>
  /\ UNCHANGED <<envVars, config, hasModifiedDeps, loc, staleRes, gctx, prevClean>>

\* one iteration of the loop of writeFilesToTarBall (lines 210-237); out is
\* how os.Stat, ioutil.ReadFile, WriteHeader and Write went for this file
writeFilesToTarBall_File(out) ==
  /\ pc = "tar_files"
  /\ LET file == tar.paths[tar.i] IN
       IF out = "ok" THEN
         /\ tar' = [tar EXCEPT !.entries = Append(@, [Name |-> EntryName(file),
                                                       Body |-> Content(file)]),
                               !.i = @ + 1]
         /\ pc' = IF tar.i = Len(tar.paths) THEN "build_steps" ELSE "tar_files"
         /\ UNCHANGED <<hist, result>>
       ELSE
         /\ PackFails(out)
         /\ tar' = tar
  /\ UNCHANGED <<envVars, config, hasModifiedDeps, loc, staleRes, gctx, gign, prevClean>>

\* ctx.Client.BuildImage(opts): the engine builds and tags the image, or
\* fails; a build served from the engine's cache yields an image created earlier
BuildImage(opts, ok, id, created) ==
  /\ hist' = [hist EXCEPT !.buildCalls = @ + 1, !.opts = opts]
  /\ IF ok THEN
       /\ image' = [ID |-> id, Created |-> created, exists |-> TRUE]
       /\ pc' = "post_lookup1"
       /\ result' = result
     ELSE
       /\ image' = image
       /\ Fails("BuildErr")

\* buildImageFromSteps lines 138-142; writeTarball's frame and the two
\* finished goroutines are gone, the buffer lives on in the options
buildImageFromSteps(ok, id, created) ==
  /\ pc = "build_steps"
  /\ BuildImage([set |-> TRUE, hasInput |-> TRUE, InputStream |-> tar.entries,
                 Dockerfile |-> "", ContextDir |-> <<>>], ok, id, created)
  /\ tar' = TarIdle
  /\ gctx' = GoIdle
  /\ gign' = GoIgnIdle
  /\ UNCHANGED <<clock, record, ctxMtime, rootStat, files, lstatFail, config,
                 hasModifiedDeps, loc, staleRes, prevClean>>

\* buildImageFromDockerfile (lines 103-110); buildIsStale's frame is gone
buildImageFromDockerfile(ok, id, created) ==
  /\ pc = "build_dockerfile"
  /\ BuildImage([set |-> TRUE, hasInput |-> FALSE, InputStream |-> <<>>,
                 Dockerfile |-> config.Dockerfile, ContextDir |-> Context], ok, id, created)
  /\ loc' = LocIdle
  /\ UNCHANGED <<clock, record, ctxMtime, rootStat, files, lstatFail, config,
                 hasModifiedDeps, staleRes, gctx, gign, tar, prevClean>>

\* buildImage lines 95-98
buildImage_GetImage(fail) ==
  /\ pc = "post_lookup1"
  /\ LET r == GetImage(fail) IN
       IF r.err # Nil THEN
         /\ Fails(r.err)
         /\ loc' = loc
       ELSE
         /\ loc' = [loc EXCEPT !.newImage = r.image]
         /\ pc' = "post_write1"
         /\ result' = result
  /\ UNCHANGED <<envVars, config, hasModifiedDeps, staleRes, gctx, gign, tar, hist,
                 prevClean>>

\* faulty variant: a failed buildImage is tried again
buildImage_Return_Retry(werr) ==
  IF werr # Nil THEN [pc |-> BuildEntry, result |-> NoResult]
  ELSE [pc |-> "post_lookup2", result |-> NoResult]

\* what buildImage returns after its updateImageRecord (line 100)
buildImage_Return(werr) ==
  IF werr # Nil THEN [pc |-> "done", result |-> [set |-> TRUE, built |-> FALSE, err |-> werr]]
  ELSE [pc |-> "post_lookup2", result |-> NoResult]

\* buildImage lines 99-100 and RunBuild lines 35-37
buildImage_UpdateRecord(ok) ==
  /\ pc = "post_write1"
  /\ record' = IF ok THEN updateImageRecord(imageModifiedRecord(loc.newImage)) ELSE record
  /\ hist' = [hist EXCEPT !.recWrites = IF ok THEN @ + 1 ELSE @,
                          !.recWriteFailed = @ \/ ~ok]
  /\ LET r == buildImage_Return(IF ok THEN Nil ELSE "WriteErr") IN
       /\ pc' = r.pc
       /\ result' = r.result
  /\ UNCHANGED <<clock, image, ctxMtime, rootStat, files, lstatFail, config,
                 hasModifiedDeps, loc, staleRes, gctx, gign, tar, prevClean>>

\* RunBuild lines 39-42
RunBuild_GetImage(fail) ==
  /\ pc = "post_lookup2"
  /\ LET r == GetImage(fail) IN
       IF r.err # Nil THEN
         /\ Fails(r.err)
         /\ loc' = loc
       ELSE
         /\ loc' = [loc EXCEPT !.runImage = r.image]
         /\ pc' = "post_write2"
         /\ result' = result
  /\ UNCHANGED <<envVars, config, hasModifiedDeps, staleRes, gctx, gign, tar, hist,
                 prevClean>>

\* RunBuild lines 44-49: a failed write is only a warning
RunBuild_UpdateRecord(ok) ==
  /\ pc = "post_write2"
  /\ record' = IF ok THEN updateImageRecord(imageModifiedRecord(loc.runImage)) ELSE record
  /\ hist' = [hist EXCEPT !.recWrites = IF ok THEN @ + 1 ELSE @,
                          !.recWriteFailed = @ \/ ~ok]
  /\ pc' = "done"
  /\ result' = [set |-> TRUE, built |-> TRUE, err |-> Nil]
  /\ UNCHANGED <<clock, image, ctxMtime, rootStat, files, lstatFail, config,
                 hasModifiedDeps, loc, staleRes, gctx, gign, tar, prevClean>>

\* ------------------------------------------------------- the environment
\* The environment moves where the program can tell the difference: between
\* executions, and before the calls that read what it changes.

\* time passes; the program reads the clock when the engine stamps a new image
\* and when the record file is written
Tick ==
  /\ pc \in {"idle", "build_steps", "build_dockerfile", "post_write1", "post_write2"}
  /\ clock < MaxTime
  /\ clock' = clock + 1
  /\ UNCHANGED <<image, record, ctxMtime, rootStat, files, lstatFail, config, pc,
                 hasModifiedDeps, loc, staleRes, gctx, gign, tar, hist, result, prevClean>>

\* somebody changes the context directory
TouchContext(fs) ==
  /\ pc = "idle"
  /\ fs # [rootStat |-> rootStat, files |-> files, lstatFail |-> lstatFail]
       \/ ctxMtime # clock
  /\ rootStat' = fs.rootStat
  /\ files' = fs.files
  /\ lstatFail' = fs.lstatFail
  /\ ctxMtime' = clock
  /\ prevClean' = FALSE
  /\ UNCHANGED <<clock, image, record, config, pc, hasModifiedDeps, loc, staleRes, gctx,
                 gign, tar, hist, result>>

\* the engine's image of this name is removed or replaced by somebody else
EngineChange(new) ==
  /\ pc \in {"idle", "post_lookup1", "post_lookup2"}
  /\ new # image
  /\ image' = new
  /\ prevClean' = FALSE
  /\ hist' = IF pc = "idle" THEN hist ELSE [hist EXCEPT !.quiet = FALSE]
  /\ UNCHANGED <<clock, record, ctxMtime, rootStat, files, lstatFail, config, pc,
                 hasModifiedDeps, loc, staleRes, gctx, gign, tar, result>>

\* the record file is removed or damaged
RecordDamage(new) ==
  /\ pc = "idle"
  /\ new # record
  /\ record' = new
  /\ prevClean' = FALSE
  /\ UNCHANGED <<clock, image, ctxMtime, rootStat, files, lstatFail, config, pc,
                 hasModifiedDeps, loc, staleRes, gctx, gign, tar, hist, result>>

Next ==
  \/ \E h \in BOOLEAN : RunBuild_Start(h)
  \/ RunBuild_Exit
  \/ \E fail \in BOOLEAN : buildIsStale_Lookup(fail)
  \/ buildIsStale_LastModified
  \/ \E fail \in BOOLEAN : buildIsStale_Record(fail)
  \/ \E ok \in BOOLEAN : writeDockerfiletoTarBall(ok)
  \/ GoScanContext
  \/ \E ra \in {[err |-> TRUE, pats |-> <<>>]}
               \cup {[err |-> FALSE, pats |-> ps] : ps \in PatternLists} :
       GoScanIgnored(ra)
  \/ getTarContext_RecvCtx
  \/ getTarContext_RecvIgnored
  \/ \E out \in {"ok", "StatErr", "ReadErr", "TarWriteErr"} : writeFilesToTarBall_File(out)
  \/ \E ok \in BOOLEAN, id \in IDs, created \in 0..clock :
       buildImageFromSteps(ok, id, created)
  \/ \E ok \in BOOLEAN, id \in IDs, created \in 0..clock :
       buildImageFromDockerfile(ok, id, created)
  \/ \E fail \in BOOLEAN : buildImage_GetImage(fail)
  \/ \E ok \in BOOLEAN : buildImage_UpdateRecord(ok)
  \/ \E fail \in BOOLEAN : RunBuild_GetImage(fail)
  \/ \E ok \in BOOLEAN : RunBuild_UpdateRecord(ok)
  \/ Tick
  \/ \E fs \in FsStates : TouchContext(fs)
  \/ \E new \in {NoImage} \cup {[ID |-> d, Created |-> clock, exists |-> TRUE] : d \in IDs} :
       EngineChange(new)
  \/ \E new \in {NoRecord, CorruptRecord} : RecordDamage(new)

Spec == Init /\ [][Next]_vars


\* ------------------------------------------------------------ the claims

\* C1: when the lookup of buildIsStale reports "no such image", buildIsStale
\* returns (true, nil) at once: the context's last-modified time is not
\* computed and the record is not read, whatever the record and the context are.
C1_NoSuchImageIsStale ==
  loc.lookupErr = ErrNoSuchImage =>
    /\ staleRes.set /\ staleRes.stale /\ staleRes.err = Nil
    /\ staleRes.at = "lookup"
    /\ ~hist.mtimeComputed /\ ~hist.recordRead
    /\ loc.mtimeErr = None /\ loc.recErr = None

C1_Witness ==
  /\ loc.lookupErr = ErrNoSuchImage
  /\ staleRes.set /\ staleRes.stale
  /\ record.state = "ok"
  /\ rootStat = "missing"

\* C2: with the image found, the walk done and the record read, buildIsStale
\* answers stale exactly when the record's ImageID differs from the image's ID
\* or the record file's time is strictly before the context's; equal times
\* with equal IDs are fresh, differing IDs are stale at any times.
C2_RecordDecides ==
  (staleRes.set /\ loc.recErr = Nil) =>
    /\ loc.lookupErr = Nil /\ loc.mtimeErr = Nil
    /\ loc.image = image /\ loc.record = record /\ loc.mtime = ctxMtime
    /\ staleRes.err = Nil
    /\ staleRes.stale = (record.ImageID # image.ID \/ record.ModTime < ctxMtime)
    /\ (record.ImageID = image.ID /\ record.ModTime = ctxMtime => ~staleRes.stale)
    /\ (record.ImageID # image.ID => staleRes.stale)

C2_Witness ==
  /\ staleRes.set /\ loc.recErr = Nil
  /\ record.ImageID = image.ID
  /\ record.ModTime = ctxMtime /\ ctxMtime > 0
  /\ ~staleRes.stale

\* C3: with the image found and the walk done, a failed record read gives a
\* nil error and stale exactly when the image was created strictly before
\* the context's last modification; the read error does not reach the caller.
C3_FallbackOnReadFailure ==
  (staleRes.set /\ loc.recErr = "RecordErr") =>
    /\ loc.lookupErr = Nil /\ loc.mtimeErr = Nil
    /\ loc.image = image /\ loc.mtime = ctxMtime
    /\ staleRes.err = Nil
    /\ staleRes.stale = (image.Created < ctxMtime)
    /\ result.err = Nil

C3_Witness ==
  /\ staleRes.set /\ loc.recErr = "RecordErr"
  /\ record.state = "corrupt"
  /\ image.Created = ctxMtime /\ ctxMtime > 0
  /\ ~staleRes.stale
  /\ pc = "done"

\* C4: a failed record write never fails the build: when a record write
\* failed and no lookup after the build failed, RunBuild returned (true, nil).
C4_WriteFailureNeverFailsBuild ==
  (pc = "done" /\ hist.recWriteFailed /\ result.err \notin {"LookupErr", ErrNoSuchImage}) =>
    (result.built /\ result.err = Nil)

\* C5: from no image and no record, an execution that checks staleness and
\* meets no error finds stale and builds; the next execution, with nothing
\* changed in between, the first one's record writes done and the record
\* read back, finds fresh and does not build.
C5_SecondRunIsFresh ==
  /\ (pc = "done" /\ hist.startEmpty /\ ~hasModifiedDeps /\ result.err = Nil) =>
       (staleRes.stale /\ staleRes.err = Nil /\ result.built /\ hist.buildCalls = 1)
  /\ (prevClean /\ ~hasModifiedDeps /\ staleRes.set /\ loc.recErr = Nil) =>
       /\ ~staleRes.stale /\ staleRes.err = Nil
       /\ pc = "done"
       /\ result = [set |-> TRUE, built |-> FALSE, err |-> Nil]
       /\ hist.buildCalls = 0

C5_Witness ==
  /\ pc = "done" /\ prevClean /\ ~hasModifiedDeps
  /\ staleRes.set /\ ~staleRes.stale
  /\ loc.recErr = Nil
  /\ ~result.built

\* C6: whenever the walk reported an error, for the root or for an entry,
\* what the scan returns to its caller carries a non-nil error: it never
\* returns a nil error after a walk error.
C6_WalkErrorReturned ==
  /\ (gctx.pc \in {"send", "done"} /\ gctx.walkErr) => gctx.error # Nil
  /\ (gign.pc \in {"send", "done"} /\ gign.walkErr) => gign.error # Nil

\* a root that does not exist
RootMissing(p) ==
  \/ p = <<"nodir">>
  \/ p = Context /\ rootStat = "missing"
  \/ Len(p) = 2 /\ p[1] = Context[1] /\ (rootStat = "missing" \/ p[2] \notin files)

\* C7: an ignore pattern whose root does not exist adds no path, no error and
\* no crash: the scan's result is that of the other patterns.
C7_MissingIgnoreRootIsEmpty ==
  LET pats == gign.readAll.pats
      rest == SelectSeq(pats, LAMBDA p : ~RootMissing(p))
      others == scanIgnored([err |-> FALSE, pats |-> rest])
  IN (/\ gign.pc \in {"send", "done", "panic"}
      /\ ~gign.readAll.err
      /\ rest # pats
      /\ ~others.walkErr) =>
       /\ gign.pc # "panic"
       /\ gign.error = Nil
       /\ gign.Slice = others.Slice

C9_NoPartialArchive ==
  (hist.packFail # None \/ hist.walkErr) =>
    /\ hist.buildCalls = 0
    /\ (pc = "done" => result.err # Nil)

\* C10: when the lookup fails with another error than "no such image", or
\* the last-modified walk fails, buildIsStale returns (true, that error) and
\* RunBuild returns (false, that error): nothing is built, nothing written.
C10_LookupAndWalkErrorsPropagate ==
  (staleRes.set /\ (loc.lookupErr = "LookupErr" \/ loc.mtimeErr = "WalkErr")) =>
    LET e == IF loc.lookupErr = "LookupErr" THEN "LookupErr" ELSE "WalkErr" IN
      /\ staleRes.stale /\ staleRes.err = e
      /\ pc = "done"
      /\ result = [set |-> TRUE, built |-> FALSE, err |-> e]
      /\ hist.buildCalls = 0 /\ ~hist.opts.set
      /\ hist.recWrites = 0 /\ ~hist.recWriteFailed

C10_Witness ==
  /\ staleRes.set /\ loc.mtimeErr = "WalkErr"
  /\ image.exists
  /\ pc = "done" /\ result.err = "WalkErr"

\* positions of RunBuild inside buildImage, from the pack to the last write
Building ==
  pc \in {"tar_dockerfile", "recv_ctx", "recv_ignored", "tar_files", "build_steps",
          "build_dockerfile", "post_lookup1", "post_write1", "post_lookup2", "post_write2"}

\* C11 as stated: in every execution buildIsStale has answered stale, without
\* error, before the engine is asked to build.
C11_OracleBeforeEveryBuild ==
  (Building \/ hist.buildCalls > 0) =>
    (staleRes.set /\ staleRes.stale /\ staleRes.err = Nil)

\* C11 amended: an execution with hasModifiedDeps = false consults
\* buildIsStale before the engine is asked to build, and builds only on a
\* stale answer without error; with hasModifiedDeps = true buildIsStale is
\* not consulted at all and the engine is asked to build.
C11_OracleBeforeBuildUnlessModifiedDeps ==
  /\ (Building \/ hist.buildCalls > 0) =>
       IF hasModifiedDeps THEN ~staleRes.set
       ELSE staleRes.set /\ staleRes.stale /\ staleRes.err = Nil
  /\ staleRes.set => ~hasModifiedDeps
  /\ pc \in {"stale_lookup", "stale_mtime", "stale_record"} =>
       (~staleRes.set /\ hist.buildCalls = 0 /\ ~hasModifiedDeps)

C11_Witness ==
  /\ hist.buildCalls = 1
  /\ ~hasModifiedDeps
  /\ staleRes.set /\ staleRes.stale
  /\ staleRes.at = "record"

PathSet(s) == {s[k] : k \in 1..Len(s)}

\* C12: when getTarContext succeeds, the paths it returns are exactly the
\* paths of the context scan that are not among the resolved ignored paths,
\* in scan order: none is ignored, each was scanned, nothing else is dropped;
\* with no ignored path the scan is returned unchanged, and a context whose
\* only file is ignored yields no path.
C12_FilteredContext ==
  tar.diffed =>
    /\ PathSet(tar.paths) = PathSet(gctx.Slice) \ PathSet(gign.Slice)
    /\ tar.paths = SelectSeq(gctx.Slice, LAMBDA p : p \in PathSet(tar.paths))
    /\ gign.Slice = <<>> => tar.paths = gctx.Slice
    /\ (gctx.Slice # <<>> /\ PathSet(gctx.Slice) \subseteq PathSet(gign.Slice))
         => tar.paths = <<>>

\* a context with the single file a and the ignore pattern ctx/a
C12_Witness ==
  /\ tar.diffed
  /\ files = {"a"}
  /\ gctx.Slice = <<Context \o <<"a">>>>
  /\ gign.Slice = <<Context \o <<"a">>>>
  /\ tar.paths = <<>>

\* C13: no execution of RunBuild asks the engine to build more than once,
\* whatever fails before or after the build.
C13_AtMostOneBuild ==
  hist.buildCalls <= 1

\* a run that built and then failed returns without a second build
C13_Witness ==
  /\ pc = "done"
  /\ hist.buildCalls = 1
  /\ result.set /\ ~result.built /\ result.err # Nil

\* C14: each of the two scan goroutines has its result received and
\* terminates: none ends without delivering a result, and none is still
\* running or blocked on its send once getTarContext is no longer receiving.
C14_ProducersComplete ==
  \A q \in {gctx.pc, gign.pc} :
    /\ q # "panic"
    /\ q \in {"run", "send"} => pc \in {"recv_ctx", "recv_ignored"}

\* C15: when RunBuild returns (true, nil) the record file was written during
\* the execution and holds a readable record; if the two lookups after the
\* build reported the same image ID, the record carries that ID, also when
\* the write in RunBuild failed.
C15_RecordFollowsBuild ==
  (pc = "done" /\ result.set /\ result.built /\ result.err = Nil) =>
    /\ hist.buildCalls = 1
    /\ hist.recWrites >= 1
    /\ record.state = "ok"
    /\ loc.newImage.exists /\ loc.runImage.exists
    /\ loc.newImage.ID = loc.runImage.ID => record.ImageID = loc.runImage.ID

\* the write in RunBuild failed and the record of buildImage's write stands
C15_Witness ==
  /\ pc = "done" /\ result.set /\ result.built
  /\ hist.recWriteFailed
  /\ hist.recWrites = 1
  /\ record.ImageID = loc.runImage.ID

\* buildIsStale has returned (false, nil) in an execution with hasModifiedDeps = false
FreshAnswer ==
  ~hasModifiedDeps /\ staleRes.set /\ ~staleRes.stale /\ staleRes.err = Nil

\* C16: the step in which buildIsStale answers (false, nil) with
\* hasModifiedDeps = false ends RunBuild with (false, nil); the engine was not
\* asked to build, nothing was packed and no scan was started, the record file
\* was not written and is as it was, and the image and the context are as
\* they were.
C16_FreshRunChangesNothing ==
  [][FreshAnswer' =>
       /\ pc' = "done"
       /\ result' = [set |-> TRUE, built |-> FALSE, err |-> Nil]
       /\ hist'.buildCalls = 0 /\ ~hist'.opts.set
       /\ tar' = TarIdle /\ gctx' = GoIdle /\ gign' = GoIgnIdle
       /\ hist'.recWrites = 0 /\ ~hist'.recWriteFailed
       /\ record' = record
       /\ <<image, ctxMtime, rootStat, files, lstatFail, clock>>' =
            <<image, ctxMtime, rootStat, files, lstatFail, clock>>]_vars

\* a fresh answer given from a readable record
C16_Witness ==
  /\ FreshAnswer
  /\ pc = "done"
  /\ staleRes.at = "record"
  /\ record.state = "ok"
  /\ hist.recordRead

\* C17: every step that asks the engine to build passes exactly one kind of
\* input: with non-empty steps the archive just packed as input stream and
\* neither Dockerfile name nor context directory; with empty steps the
\* configured Dockerfile name and context directory and no input stream.
\* Steps take precedence when a Dockerfile is configured as well.
C17_OneKindOfInput ==
  [][hist'.buildCalls = hist.buildCalls + 1 =>
       /\ hist'.opts.set
       /\ IF config.Steps # ""
            THEN /\ hist'.opts.hasInput
                 /\ hist'.opts.InputStream = tar.entries
                 /\ tar.entries # <<>>
                 /\ hist'.opts.Dockerfile = ""
                 /\ hist'.opts.ContextDir = <<>>
            ELSE /\ ~hist'.opts.hasInput
                 /\ hist'.opts.InputStream = <<>>
                 /\ hist'.opts.Dockerfile = config.Dockerfile
                 /\ hist'.opts.ContextDir = Context]_vars

\* steps and a Dockerfile are both configured and the engine got the archive
C17_Witness ==
  /\ config.Steps # "" /\ config.Dockerfile # ""
  /\ hist.buildCalls = 1
  /\ hist.opts.hasInput
  /\ hist.opts.Dockerfile = ""

\* C18: when writeTarball has succeeded the archive starts with an entry
\* named Dockerfile whose body is the steps text, followed by one entry per
\* path returned by getTarContext, in the same order, each with the content
\* read from that path; with no path left the archive is the Dockerfile
\* entry alone.
C18_ArchiveLayout ==
  pc = "build_steps" =>
    /\ tar.diffed
    /\ Len(tar.entries) = 1 + Len(tar.paths)
    /\ tar.entries[1] = [Name |-> <<"Dockerfile">>, Body |-> <<config.Steps>>]
    /\ \A k \in 1..Len(tar.paths) :
         tar.entries[k + 1].Body = <<"bytes">> \o tar.paths[k]
    /\ tar.paths = <<>> =>
         tar.entries = <<[Name |-> <<"Dockerfile">>, Body |-> <<config.Steps>>]>>

\* an archive with the Dockerfile and both files of the context
C18_Witness ==
  /\ pc = "build_steps"
  /\ Len(tar.paths) = 2
  /\ Len(tar.entries) = 3
  /\ tar.entries[2].Body # tar.entries[3].Body

====
